---- MODULE Spec2Model ----
(***************************************************************************)
(* Refutation resolution prover of exercise2: literals, clauses,           *)
(* resolvents, the simplification strategies, the control strategies       *)
(* (knowledge base) and the RefutationResolution search loop.              *)
(*                                                                         *)
(* A literal is a non-zero integer: variable v is v, its negation is -v.   *)
(* A clause object is a record [lits, par]: lits is the literal set that   *)
(* decides equality and hash (Clause is a frozenset), par is <<>> for a    *)
(* plain Clause and <<left_parent, right_parent>> for a Resolvent.         *)
(* A Python set of clauses is a set of clause objects with pairwise        *)
(* different lits; which object represents a literal set follows the       *)
(* set operation that built it.                                            *)
(***************************************************************************)
EXTENDS Integers, FiniteSets, Sequences, TLC

VARIABLES
    strategy,             \* "levels" (SaturationByLevels) or "support" (SupportSetStrategy)
    simplification,       \* _simplification_strategies: sequence over {"redundant","insignificant"}
    premises,             \* _premises
    goal,                 \* <<>> while _goal is unset, <<clause>> afterwards
    resolution_clauses,   \* _resolution_clauses
    temporary_knowledge,  \* _temporary_acquired_knowledge
    acquired_knowledge,   \* _acquired_knowledge
    pc,                   \* "idle", or "loop" inside the while loop of resolve()
    round,                \* parity of the iterations of the while loop done so far
    report,               \* the last ResolutionReport
    last,                 \* the last task: its kind, succeeded (add, remove), keep_acquired_knowledge (resolve)
    tasks,                \* number of tasks started
    fin,                  \* input of the pure function under check
    fout                  \* its result

vars == <<strategy, simplification, premises, goal, resolution_clauses,
          temporary_knowledge, acquired_knowledge, pc, round, report, last, tasks, fin, fout>>

----------------------------------------------------------------------------
(* Bounds *)

NLits == 4          \* literals of the clauses of a session: 1, -1, 2, -2, ...
MaxLits == 2        \* literals per input clause
MaxPremises == 1    \* premises handed to the constructor of a session
MaxGoalLits == 1    \* literals per goal clause
MaxTasks == 2       \* tasks per session
RunLits == 5        \* literals of the clauses of a single resolve() run
RunPremises == 2    \* premises of a single resolve() run
MaxEarly == 1       \* resolvents collected before the for loop returns on NIL
LoopPremises == 3   \* premises of a run that is followed to its end
EditLits == 3       \* literals of the clauses of an inquiry followed by a premise mutation
EditPremises == 1   \* premises handed to the constructor before that inquiry
SupportLits == 3    \* literals of the clauses of a run of the support-set strategy
SupportPremises == 2 \* premises of a run of the support-set strategy
HashRange == 2      \* values that hash() of a variable name takes
FnLits == 4         \* literals of the clauses handed to the pure functions
MaxSetSize == 3     \* clauses of a clause set handed to a simplification strategy
SessionPremises == 1 \* premises a session of do() starts with
MaxRounds == 4      \* iterations of the while loop followed when resolve() is taken as a function

----------------------------------------------------------------------------
(* Literals and clauses *)

\* the first n literals of 1, -1, 2, -2, ...
Lits(n) == {IF i % 2 = 1 THEN (i + 1) \div 2 ELSE 0 - (i \div 2) : i \in 1..n}

\* LogicLiteral.__neg__
Neg(l) == 0 - l

\* Clause(...) : a plain clause
Clause(ls) == [lits |-> ls, par |-> <<>>]

\* Resolvent(...).set_parents(left, right)
Resolvent(ls, left, right) == [lits |-> ls, par |-> <<left, right>>]

IsResolvent(c) == Len(c.par) = 2

LeftParent(c) == c.par[1]

RightParent(c) == c.par[2]

\* Clause.is_nil
IsNil(c) == Cardinality(c.lits) = 0

\* Clause.is_tautology
IsTautology(c) == \E l \in c.lits : Neg(l) \in c.lits

\* Clause.__neg__ : the unit clauses of the negated literals
NegClause(c) == {Clause({Neg(l)}) : l \in c.lits}

\* Clause.remove_complementary_literals: walk the input, and whenever the
\* complement of the literal at hand is still in the working set drop both
RECURSIVE RemoveWalk(_, _)
RemoveWalk(todo, cur) ==
    IF todo = {} THEN cur
    ELSE LET l == CHOOSE x \in todo : TRUE
         IN  RemoveWalk(todo \ {l},
                        IF Neg(l) \in cur THEN cur \ {l, Neg(l)} ELSE cur)

RemoveComplementaryLiterals(ls) == RemoveWalk(ls, ls)

\* Resolvent.is_new_knowledge: strict subset of the union of the parents
IsNewKnowledge(r) ==
    LET u == LeftParent(r).lits \cup RightParent(r).lits
    IN  r.lits \subseteq u /\ r.lits # u

\* all clauses over the first n literals with at most k literals
ClausesOver(n, k) == {Clause(ls) : ls \in {s \in SUBSET Lits(n) : Cardinality(s) <= k}}

----------------------------------------------------------------------------
(* Python set operations on sets of clauses (equality is equality of lits) *)

\* c in S
Has(S, c) == \E x \in S : x.lits = c.lits

\* S.add(c), S | {c}: the member already there stays
SetAdd(S, c) == IF Has(S, c) THEN S ELSE S \cup {c}

\* S | T, S |= T
SetUnion(S, T) == S \cup {t \in T : ~Has(S, t)}

\* S - T
SetDiff(S, T) == {s \in S : ~Has(T, s)}

\* S & T: the members of the smaller operand (of T on a tie) found in the other
SetInter(S, T) ==
    IF Cardinality(T) > Cardinality(S)
    THEN {s \in S : Has(T, s)}
    ELSE {t \in T : Has(S, t)}

\* S.remove(c) for c in S
SetRemove(S, c) == {s \in S : s.lits # c.lits}

\* T <= S
SetSubset(T, S) == \A t \in T : Has(S, t)

----------------------------------------------------------------------------
(* Simplification strategies *)

\* a variant of subsumption removal that discards the subsuming clause rather
\* than the subsumed one; SimplificationPreserves tells it from the original
RedundantClauseRemovalReversed(S) ==
    LET to_remove == {a \in S : \E b \in S : a # b /\ a.lits \subseteq b.lits}
    IN  S \ to_remove

\* RedundantClauseRemoval.simplify
RedundantClauseRemoval(S) ==
    LET to_remove == {b \in S : \E a \in S : a # b /\ a.lits \subseteq b.lits}
    IN  S \ to_remove

\* a variant of the tautology filter that drops only one tautology per call;
\* IdempotentSimplification tells it from the original
InsignificantClauseRemovalFirst(S) ==
    IF \E c \in S : IsTautology(c)
    THEN S \ {CHOOSE c \in S : IsTautology(c)}
    ELSE S

\* InsignificantClauseRemoval.simplify
InsignificantClauseRemoval(S) == {c \in S : ~IsTautology(c)}

ApplyStrategy(name, S) ==
    IF name = "redundant" THEN RedundantClauseRemoval(S)
    ELSE InsignificantClauseRemoval(S)

\* ControlStrategy.simplify_resolution_clauses
RECURSIVE SimplifyFrom(_, _, _)
SimplifyFrom(seq, i, S) ==
    IF i > Len(seq) THEN S
    ELSE SimplifyFrom(seq, i + 1, ApplyStrategy(seq[i], S))

Simplify(seq, S) == SimplifyFrom(seq, 1, S)

Configurations ==
    { <<>>, <<"redundant">>, <<"insignificant">>,
      <<"redundant", "insignificant">>, <<"insignificant", "redundant">> }

\* ControlStrategy.removes_insignificant_clauses
RemovesInsignificantClauses(seq) == \E i \in 1..Len(seq) : seq[i] = "insignificant"

----------------------------------------------------------------------------
(* Resolution rule *)

\* RefutationResolution._resolve_possible_tautologies
ResolvePossibleTautologies(A, B) ==
    Resolvent(RemoveComplementaryLiterals(A.lits \cup B.lits), A, B)

\* a variant of the rule that resolves on a single complementary pair;
\* ComplementResolvesToNil tells it from the original
ResolveNonTautologiesSinglePivot(A, B) ==
    IF \E l \in A.lits : Neg(l) \in B.lits
    THEN LET l == CHOOSE x \in A.lits : Neg(x) \in B.lits
         IN  Resolvent((A.lits \ {l}) \cup (B.lits \ {Neg(l)}), A, B)
    ELSE Resolvent(A.lits \cup B.lits, A, B)

\* RefutationResolution._resolve_non_tautologies
ResolveNonTautologies(A, B) ==
    Resolvent((A.lits \cap B.lits) \cup
              RemoveComplementaryLiterals((A.lits \ B.lits) \cup (B.lits \ A.lits)), A, B)

\* RefutationResolution.__init__: the rule chosen for the configuration
ResolveClauses(seq, A, B) ==
    IF RemovesInsignificantClauses(seq) THEN ResolveNonTautologies(A, B)
    ELSE ResolvePossibleTautologies(A, B)

----------------------------------------------------------------------------
(* Control strategies: the knowledge base *)

\* a variant of the level pairing that also pairs each clause with itself;
\* LevelsPairsExact tells it from the original
LevelsPairsWithReplacement(rc) == rc \X rc

\* SaturationByLevels.get_new_clause_pairs: itertools.combinations yields
\* every unordered pair once; the set's iteration order decides which member
\* comes first, so both orientations are candidates
LevelsPairs(rc) == {p \in rc \X rc : p[1] # p[2]}

\* SupportSetStrategy.support_set
SupportSet(rc, acq, g) ==
    SetUnion(SetInter(rc, acq), SetInter(rc, NegClause(g)))

\* a variant of the support-set pairing that pairs any two clauses of the
\* working set; SupportSetPairs tells it from the original
SupportPairsAll(rc, acq, g) ==
    {p \in rc \X rc : p[1] # p[2]}

\* SupportSetStrategy.get_new_clause_pairs
SupportPairs(rc, acq, g) ==
    LET ss == SupportSet(rc, acq, g)
    IN  (SetDiff(rc, ss) \X ss) \cup {p \in ss \X ss : p[1] # p[2]}

\* ControlStrategy.get_new_clause_pairs
NewClausePairs ==
    IF strategy = "levels" THEN LevelsPairs(resolution_clauses)
    ELSE SupportPairs(resolution_clauses, acquired_knowledge, goal[1])

\* a variant of the fixpoint test without its negation;
\* FailureOnlyAtSaturation tells it from the original
FoundAnyNewKnowledgeInverted(temp, rc) == SetSubset(temp, rc)

\* ControlStrategy.found_any_new_knowledge
FoundAnyNewKnowledge(temp, rc) == ~SetSubset(temp, rc)

\* ControlStrategy._remove_dependent_knowledge: returns <<premises, acquired>>
RECURSIVE RemoveDependentKnowledge(_, _, _)
RemoveDependentKnowledge(knowledge, prem, acq) ==
    LET prem1 == {p \in prem : ~Has(knowledge, p)}
        acq1 == {a \in acq : ~(Has(knowledge, a) /\ ~Has(prem, a))}
        dependent == {r \in acq1 : Has(knowledge, RightParent(r))
                                      \/ Has(knowledge, LeftParent(r))}
    IN  IF dependent # {} THEN RemoveDependentKnowledge(dependent, prem1, acq1)
        ELSE <<prem1, acq1>>

\* bounded subsets
RECURSIVE SubsetsUpTo(_, _)
SubsetsUpTo(S, k) ==
    IF k = 0 THEN {{}}
    ELSE LET prev == SubsetsUpTo(S, k - 1)
         IN  prev \cup {p \cup {x} : p \in prev, x \in S}

InputClauses == ClausesOver(NLits, MaxLits)

InputGoals == ClausesOver(NLits, MaxGoalLits)

RunClauses == ClausesOver(RunLits, MaxLits)

RunGoals == ClausesOver(RunLits, MaxGoalLits)

NoReport == [status |-> "none", premises |-> {}, goal |-> {}, derivation |-> <<>>, knowledge |-> {}]

NoTask == [op |-> "none", ok |-> FALSE, keep |-> FALSE]

\* ControlStrategy.__init__ (no goal given) and RefutationResolution.__init__
Construct(P) ==
    /\ strategy \in {"levels", "support"}
    /\ simplification \in Configurations
    /\ premises \in P
    /\ goal = <<>>
    /\ resolution_clauses = {}
    /\ temporary_knowledge = {}
    /\ acquired_knowledge = {}
    /\ pc = "idle"
    /\ round = 0
    /\ report = NoReport
    /\ last = NoTask
    /\ tasks = 0
    /\ fin = <<>>
    /\ fout = <<>>

Init == Construct(SubsetsUpTo(InputClauses, MaxPremises))

\* a variant of add_premise that also puts the clause into the working set;
\* AddPremiseFrame tells it from the original
AddPremiseEager(c) ==
    /\ pc = "idle"
    /\ premises' = SetAdd(premises, c)
    /\ resolution_clauses' = SetAdd(resolution_clauses, c)
    /\ last' = [op |-> "add", ok |-> TRUE, keep |-> FALSE]
    /\ tasks' = tasks + 1
    /\ UNCHANGED <<strategy, simplification, goal,
                   temporary_knowledge, acquired_knowledge, pc, round, report, fin, fout>>

\* do(PremiseAddition(c)) -> ControlStrategy.add_premise
AddPremise(c) ==
    /\ pc = "idle"
    /\ premises' = SetAdd(premises, c)
    /\ last' = [op |-> "add", ok |-> TRUE, keep |-> FALSE]
    /\ tasks' = tasks + 1
    /\ UNCHANGED <<strategy, simplification, goal, resolution_clauses,
                   temporary_knowledge, acquired_knowledge, pc, round, report, fin, fout>>

\* a variant of remove_premise without the membership test;
\* RemoveAbsentPremise tells it from the original
RemovePremiseUnguarded(c) ==
    /\ pc = "idle"
    /\ LET r == RemoveDependentKnowledge({c}, premises, acquired_knowledge)
       IN  /\ premises' = r[1]
           /\ acquired_knowledge' = r[2]
           /\ last' = [op |-> "remove", ok |-> TRUE, keep |-> FALSE]
    /\ tasks' = tasks + 1
    /\ UNCHANGED <<strategy, simplification, goal, resolution_clauses,
                   temporary_knowledge, pc, round, report, fin, fout>>

\* do(PremiseRemoval(c)) -> ControlStrategy.remove_premise
RemovePremise(c) ==
    /\ pc = "idle"
    /\ IF Has(premises, c)
       THEN LET r == RemoveDependentKnowledge({c}, premises, acquired_knowledge)
            IN  /\ premises' = r[1]
                /\ acquired_knowledge' = r[2]
                /\ last' = [op |-> "remove", ok |-> TRUE, keep |-> FALSE]
       ELSE /\ UNCHANGED <<premises, acquired_knowledge>>
            /\ last' = [op |-> "remove", ok |-> FALSE, keep |-> FALSE]
    /\ tasks' = tasks + 1
    /\ UNCHANGED <<strategy, simplification, goal, resolution_clauses,
                   temporary_knowledge, pc, round, report, fin, fout>>

\* a variant that extends the working set of the previous inquiry instead of
\* rebuilding it
PrepareForResolutionIncremental(g, keep) ==
    /\ pc = "idle"
    /\ Len(g) = 1 \/ Len(goal) = 1
    /\ LET newgoal == IF Len(g) = 1 THEN g ELSE goal
           acq == IF keep THEN acquired_knowledge ELSE {}
       IN  /\ goal' = newgoal
           /\ acquired_knowledge' = acq
           /\ temporary_knowledge' = {}
           /\ resolution_clauses' =
                  Simplify(simplification,
                           SetUnion(SetUnion(SetUnion(premises, acq), NegClause(newgoal[1])),
                                    resolution_clauses))
    /\ last' = [op |-> "resolve", ok |-> TRUE, keep |-> keep]
    /\ pc' = "loop"
    /\ round' = 0
    /\ report' = NoReport
    /\ tasks' = tasks + 1
    /\ UNCHANGED <<strategy, simplification, premises, fin, fout>>

\* ControlStrategy.prepare_for_resolution, as called first by resolve(g, keep);
\* g is <<>> for "no goal given" and <<clause>> otherwise.  Without any goal
\* the call raises; that call is left out.
PrepareForResolution(g, keep) ==
    /\ pc = "idle"
    /\ Len(g) = 1 \/ Len(goal) = 1
    /\ LET newgoal == IF Len(g) = 1 THEN g ELSE goal
           acq == IF keep THEN acquired_knowledge ELSE {}
       IN  /\ goal' = newgoal
           /\ acquired_knowledge' = acq
           /\ temporary_knowledge' = {}
           /\ resolution_clauses' =
                  Simplify(simplification,
                           SetUnion(SetUnion(premises, acq), NegClause(newgoal[1])))
    /\ last' = [op |-> "resolve", ok |-> TRUE, keep |-> keep]
    /\ pc' = "loop"
    /\ round' = 0
    /\ report' = NoReport
    /\ tasks' = tasks + 1
    /\ UNCHANGED <<strategy, simplification, premises, fin, fout>>

----------------------------------------------------------------------------
(* RefutationResolution.resolve: one iteration of the while loop per step *)

\* the resolvent of a candidate pair under the configured rule
PairResolvent(p) == ResolveClauses(simplification, p[1], p[2])

\* the candidate pairs whose resolvent is NIL
NilPairs == {p \in NewClausePairs : IsNil(PairResolvent(p))}

\* the resolvents the for loop hands to acquire_temporary_knowledge
NewResolvents ==
    {PairResolvent(p) : p \in {q \in NewClausePairs :
        ~IsNil(PairResolvent(q)) /\ IsNewKnowledge(PairResolvent(q))}}

\* ControlStrategy.acquire_temporary_knowledge over a whole iteration of the
\* pairs: of the resolvents with the same literals the first one met stays,
\* and the iteration order of a set is not fixed
RECURSIVE Selections(_)
Selections(R) ==
    IF R = {} THEN {{}}
    ELSE UNION { {sel \cup {r} : sel \in Selections(part[2]), r \in part[1]} :
                 part \in { <<{r \in R : r.lits = ls}, {r \in R : r.lits # ls}>> :
                             ls \in {(CHOOSE x \in R : TRUE).lits} } }

\* what the for loop has collected when it is left early: the resolvents of
\* the pairs met before the NIL pair (at most MaxEarly of them here)
PartialSelections(R) ==
    {T \in SubsetsUpTo(R, MaxEarly) : \A x, y \in T : x.lits = y.lits => x = y}

\* RefutationResolution._get_dependent_knowledge: post-order walk
RECURSIVE DependentKnowledge(_)
DependentKnowledge(c) ==
    IF IsResolvent(c)
    THEN DependentKnowledge(LeftParent(c)) \o DependentKnowledge(RightParent(c)) \o <<c>>
    ELSE <<>>

\* RefutationResolution._write_report; the tuple of the premises is kept as
\* the set it is built from
SuccessReport(final) ==
    [status |-> "true", premises |-> premises, goal |-> goal[1].lits,
     derivation |-> DependentKnowledge(final), knowledge |-> {}]

FailureReport ==
    [status |-> "false", premises |-> premises, goal |-> goal[1].lits,
     derivation |-> <<>>, knowledge |-> acquired_knowledge]

\* the for loop meets a NIL resolvent: return the success report
RoundNil ==
    /\ pc = "loop"
    /\ \E p \in NilPairs : report' = SuccessReport(PairResolvent(p))
    /\ \E T \in PartialSelections(NewResolvents) : temporary_knowledge' = T
    /\ pc' = "idle"
    /\ round' = 0
    /\ UNCHANGED <<strategy, simplification, premises, goal, resolution_clauses,
                   acquired_knowledge, last, tasks, fin, fout>>

\* the for loop ends and found_any_new_knowledge() is false: failure report
RoundSaturated ==
    /\ pc = "loop"
    /\ NilPairs = {}
    /\ \E T \in Selections(NewResolvents) :
          /\ ~FoundAnyNewKnowledge(T, resolution_clauses)
          /\ temporary_knowledge' = T
    /\ report' = FailureReport
    /\ pc' = "idle"
    /\ round' = 0
    /\ UNCHANGED <<strategy, simplification, premises, goal, resolution_clauses,
                   acquired_knowledge, last, tasks, fin, fout>>

\* a variant of consolidate_knowledge that commits every temporary resolvent;
\* ConsolidatePostcondition tells it from the original
ConsolidateKnowledgeAll(T) ==
    LET rc == Simplify(simplification, SetUnion(resolution_clauses, T))
    IN  /\ resolution_clauses' = rc
        /\ acquired_knowledge' = SetUnion(acquired_knowledge, T)
        /\ temporary_knowledge' = {}

\* ControlStrategy.consolidate_knowledge
ConsolidateKnowledge(T) ==
    LET rc == Simplify(simplification, SetUnion(resolution_clauses, T))
    IN  /\ resolution_clauses' = rc
        /\ acquired_knowledge' = SetUnion(acquired_knowledge, {r \in T : Has(rc, r)})
        /\ temporary_knowledge' = {}

\* the for loop ends with new knowledge: consolidate and go round again
RoundConsolidate ==
    /\ pc = "loop"
    /\ NilPairs = {}
    /\ \E T \in Selections(NewResolvents) :
          /\ FoundAnyNewKnowledge(T, resolution_clauses)
          /\ ConsolidateKnowledge(T)
    /\ round' = 1 - round
    /\ UNCHANGED <<strategy, simplification, premises, goal, pc, report,
                   last, tasks, fin, fout>>

----------------------------------------------------------------------------
(* RefutationResolution.resolve taken as a function of a knowledge base *)

\* one resolvent for each literal set of a set of resolvents
OnePerLits(R) == {CHOOSE r \in R : r.lits = ls : ls \in {x.lits : x \in R}}

\* the while loop of resolve() from a working set rc and acquired knowledge
\* acq: "true" on a NIL resolvent, "false" at saturation, "running" when the
\* loop is still going after n more iterations
RECURSIVE ResolveLoop(_, _, _, _, _, _)
ResolveLoop(strat, seq, rc, acq, g, n) ==
    LET pairs == IF strat = "levels" THEN LevelsPairs(rc) ELSE SupportPairs(rc, acq, g)
        resolvents == {ResolveClauses(seq, p[1], p[2]) : p \in pairs}
        temp == OnePerLits({r \in resolvents : IsNewKnowledge(r)})
        rc2 == Simplify(seq, SetUnion(rc, temp))
    IN  IF \E r \in resolvents : IsNil(r) THEN "true"
        ELSE IF ~FoundAnyNewKnowledge(temp, rc) THEN "false"
        ELSE IF n = 0 THEN "running"
        ELSE ResolveLoop(strat, seq, rc2,
                         SetUnion(acq, {r \in temp : Has(rc2, r)}), g, n - 1)

\* resolve(g) on a knowledge base that holds the premises prem and nothing else
ResolveFresh(strat, seq, prem, g) ==
    ResolveLoop(strat, seq, Simplify(seq, SetUnion(prem, NegClause(g))), {}, g, MaxRounds)

----------------------------------------------------------------------------
(* Specifications *)

\* a session: up to MaxTasks tasks in any order on a constructed knowledge base
Next ==
    \/ tasks < MaxTasks /\ \E c \in InputClauses : AddPremise(c)
    \/ tasks < MaxTasks /\ \E c \in InputClauses : RemovePremise(c)
    \/ tasks < MaxTasks /\ \E g \in {<<>>} \cup {<<c>> : c \in InputGoals}, keep \in BOOLEAN :
          PrepareForResolution(g, keep)
    \/ RoundNil
    \/ RoundSaturated
    \/ RoundConsolidate

Spec == Init /\ [][Next]_vars

\* a session of one inquiry followed by up to MaxTasks premise mutations
NextRetract ==
    \/ tasks = 0 /\ \E c \in InputGoals : PrepareForResolution(<<c>>, FALSE)
    \/ RoundNil
    \/ RoundSaturated
    \/ RoundConsolidate
    \/ tasks \in 1..MaxTasks /\ \E c \in InputClauses : AddPremise(c)
    \/ tasks \in 1..MaxTasks /\ \E c \in InputClauses : RemovePremise(c)

SpecRetract == Init /\ [][NextRetract]_vars

\* at most one inquiry, and one premise mutation on the knowledge base as
\* constructed or as the inquiry has left it
EditClauses == ClausesOver(EditLits, EditLits)

InitEdit == Construct(SubsetsUpTo(EditClauses, EditPremises))

NextEdit ==
    \/ last.op = "none" /\ \E c \in EditClauses : PrepareForResolution(<<c>>, FALSE)
    \/ RoundNil
    \/ RoundSaturated
    \/ RoundConsolidate
    \/ last.op \in {"none", "resolve"} /\ \E c \in EditClauses : AddPremise(c)
    \/ last.op \in {"none", "resolve"} /\ \E c \in EditClauses : RemovePremise(c)

SpecEdit == InitEdit /\ [][NextEdit]_vars

\* an inquiry of the support-set strategy followed by further ones,
\* each with a new goal or none, keeping the acquired knowledge or not
InitRepeat ==
    /\ Construct(SubsetsUpTo(EditClauses, EditPremises))
    /\ strategy = "support"

RepeatGoals == {c \in EditClauses : Cardinality(c.lits) <= MaxGoalLits}

NextRepeat ==
    \/ last.op = "none" /\ \E c \in EditClauses : PrepareForResolution(<<c>>, FALSE)
    \/ /\ last.op = "resolve"
       /\ tasks < MaxTasks
       /\ \E g \in {<<>>} \cup {<<c>> : c \in RepeatGoals}, keep \in BOOLEAN :
             PrepareForResolution(g, keep)
    \/ RoundNil
    \/ RoundSaturated
    \/ RoundConsolidate

SpecRepeat == InitRepeat /\ [][NextRepeat]_vars

\* a session of do(): up to MaxTasks premise additions, premise removals and
\* inquiries in any order over a small vocabulary; do() never keeps the
\* acquired knowledge
SessionClauses ==
    { Clause({1, 2}), Clause({0 - 1, 2}), Clause({0 - 2, 3}), Clause({1}) }

SessionGoals == { Clause({2}), Clause({3}), Clause({1, 3}) }

InitSession == Construct(SubsetsUpTo(SessionClauses, SessionPremises))

NextSession ==
    \/ tasks < MaxTasks /\ \E c \in SessionClauses : AddPremise(c)
    \/ tasks < MaxTasks /\ \E c \in SessionClauses : RemovePremise(c)
    \/ tasks < MaxTasks /\ \E c \in SessionGoals : PrepareForResolution(<<c>>, FALSE)
    \/ RoundNil
    \/ RoundSaturated
    \/ RoundConsolidate

SpecSession == InitSession /\ [][NextSession]_vars

\* a single resolve(goal) of the support-set strategy
SupportClauses == ClausesOver(SupportLits, SupportLits)

InitSupport ==
    /\ Construct(SubsetsUpTo(SupportClauses, SupportPremises))
    /\ strategy = "support"

NextSupport ==
    \/ last.op = "none" /\ \E c \in SupportClauses : PrepareForResolution(<<c>>, FALSE)
    \/ RoundNil
    \/ RoundSaturated
    \/ RoundConsolidate

SpecSupport == InitSupport /\ [][NextSupport]_vars

\* a single resolve(goal) of either strategy under a configuration that holds
\* InsignificantClauseRemoval
InitInsignificant ==
    /\ Construct(SubsetsUpTo(SupportClauses, SupportPremises))
    /\ RemovesInsignificantClauses(simplification)

SpecInsignificant == InitInsignificant /\ [][NextSupport]_vars

\* a single resolve(goal) on a freshly constructed knowledge base
InitResolve == Construct(SubsetsUpTo(RunClauses, RunPremises))

NextResolve ==
    \/ tasks = 0 /\ \E c \in RunGoals : PrepareForResolution(<<c>>, FALSE)
    \/ RoundNil
    \/ RoundSaturated
    \/ RoundConsolidate

SpecResolve == InitResolve /\ [][NextResolve]_vars

\* resolve() runs its while loop to the end once it is called: the loop is
\* never suspended, so each of its steps is taken when it stays possible
LoopClauses ==
    { Clause({1, 2, 4}), Clause({0 - 1, 3}), Clause({2, 3}), Clause({1}), Clause({0 - 1}) }

InitLoop == Construct(SubsetsUpTo(LoopClauses, LoopPremises))

Round == RoundNil \/ RoundSaturated \/ RoundConsolidate

SpecLoop == InitLoop /\ [][NextResolve]_vars /\ WF_vars(Round)

\* a single resolve(goal) on premises in which one resolvent can serve two
\* later resolution steps
ProofClauses == { Clause({1, 3}), Clause({0 - 1, 2}), Clause({0 - 1, 0 - 2}) }

InitProof == Construct(SubsetsUpTo(ProofClauses, LoopPremises))

SpecProof == InitProof /\ [][NextResolve]_vars

----------------------------------------------------------------------------
(* The pure functions on their own *)

FnClauses == ClausesOver(FnLits, FnLits)

FnInit(inputs) ==
    /\ strategy = "levels"
    /\ simplification = <<>>
    /\ premises = {}
    /\ goal = <<>>
    /\ resolution_clauses = {}
    /\ temporary_knowledge = {}
    /\ acquired_knowledge = {}
    /\ pc = "fn"
    /\ round = 0
    /\ report = NoReport
    /\ last = NoTask
    /\ tasks = 0
    /\ fin \in inputs
    /\ fout = <<>>

FnApply(name, result) ==
    /\ pc = "fn"
    /\ pc' = name
    /\ fout' = result
    /\ UNCHANGED <<strategy, simplification, premises, goal, resolution_clauses,
                   temporary_knowledge, acquired_knowledge, round, report, last, tasks, fin>>

\* the two resolution rules applied to a pair of clauses
InitRule == FnInit(FnClauses \X FnClauses)

ApplyPossibleTautologies ==
    FnApply("possible_tautologies", ResolvePossibleTautologies(fin[1], fin[2]))

ApplyNonTautologies ==
    FnApply("non_tautologies", ResolveNonTautologies(fin[1], fin[2]))

NextRule == ApplyPossibleTautologies \/ ApplyNonTautologies

SpecRule == InitRule /\ [][NextRule]_vars

\* the two simplification strategies applied to a clause set
InitSimplify == FnInit(SubsetsUpTo(FnClauses, MaxSetSize))

ApplyRedundant == FnApply("redundant", RedundantClauseRemoval(fin))

ApplyInsignificant == FnApply("insignificant", InsignificantClauseRemoval(fin))

NextSimplify == ApplyRedundant \/ ApplyInsignificant

SpecSimplify == InitSimplify /\ [][NextSimplify]_vars

\* ControlStrategy.simplify_resolution_clauses called twice in a row on a
\* clause set: after the second call fout holds the results of both calls
InitSequence ==
    /\ strategy = "levels"
    /\ simplification \in Configurations
    /\ premises = {}
    /\ goal = <<>>
    /\ resolution_clauses = {}
    /\ temporary_knowledge = {}
    /\ acquired_knowledge = {}
    /\ pc = "fn"
    /\ round = 0
    /\ report = NoReport
    /\ last = NoTask
    /\ tasks = 0
    /\ fin \in SubsetsUpTo(FnClauses, MaxSetSize)
    /\ fout = <<>>

SimplifyOnce == FnApply("simplified", Simplify(simplification, fin))

SimplifyAgain ==
    /\ pc = "simplified"
    /\ pc' = "simplified_again"
    /\ fout' = <<fout, Simplify(simplification, fout)>>
    /\ UNCHANGED <<strategy, simplification, premises, goal, resolution_clauses,
                   temporary_knowledge, acquired_knowledge, round, report, last, tasks, fin>>

NextSequence == SimplifyOnce \/ SimplifyAgain

SpecSequence == InitSequence /\ [][NextSequence]_vars

----------------------------------------------------------------------------
(* Literals with their variable names: equality, hash and set membership *)

Names == {"a", "A", "b", "B"}

\* str.lower
Lower(v) == CASE v = "A" -> "a" [] v = "B" -> "b" [] OTHER -> v

\* LogicLiteral.__init__
LogicLiteral(v, n) == [variable |-> v, is_negated |-> n]

LogicLiterals == {LogicLiteral(v, n) : v \in Names, n \in BOOLEAN}

\* hash() of a str: some function of the name, fixed within one run
StrHashes == [Names -> 0..(HashRange - 1)]

\* LogicLiteral.has_same_variable_as
HasSameVariableAs(l, m) == Lower(l.variable) = Lower(m.variable)

\* LogicLiteral.has_same_polarity_as
HasSamePolarityAs(l, m) == l.is_negated = m.is_negated

\* LogicLiteral.__eq__
LiteralEq(l, m) == HasSameVariableAs(l, m) /\ HasSamePolarityAs(l, m)

\* LogicLiteral.__hash__; ~x is -x - 1
LiteralHash(h, l) == IF l.is_negated THEN 0 - h[l.variable] - 1 ELSE h[l.variable]

\* LogicLiteral.__neg__
LiteralNeg(l) == LogicLiteral(l.variable, ~l.is_negated)

\* l in S for a set or frozenset S of literals: an entry with the same hash
\* that is equal
LiteralIn(h, l, S) == \E m \in S : LiteralHash(h, m) = LiteralHash(h, l) /\ LiteralEq(m, l)

\* Clause.__hash__ of the clause of the one literal l
UnitClauseHash(h, l) == LiteralHash(h, l)

\* frozenset equality of the clauses of the one literal l and of the one
\* literal m: the same length and every literal of one in the other
UnitClauseEq(h, l, m) == LiteralIn(h, l, {m})

\* Clause({l}) in {Clause({m})}
UnitClauseIn(h, l, m) == UnitClauseHash(h, l) = UnitClauseHash(h, m) /\ UnitClauseEq(h, l, m)

InitLiteral == FnInit(LogicLiterals \X LogicLiterals \X StrHashes)

\* two literals are compared, hashed and looked up in each other's sets
CompareLiterals ==
    FnApply("literals",
            [eq |-> LiteralEq(fin[1], fin[2]),
             hashes |-> <<LiteralHash(fin[3], fin[1]), LiteralHash(fin[3], fin[2])>>,
             member |-> UnitClauseIn(fin[3], fin[1], fin[2]),
             complement |-> LiteralIn(fin[3], LiteralNeg(fin[1]), {fin[2]})])

NextLiteral == CompareLiterals

SpecLiteral == InitLiteral /\ [][NextLiteral]_vars

----------------------------------------------------------------------------
(* Propositional semantics, for stating the properties *)

Abs(l) == IF l < 0 THEN 0 - l ELSE l

VarsOf(S) == {Abs(l) : l \in UNION {c.lits : c \in S}}

\* an assignment is the set of the true variables
Holds(asg, l) == IF l > 0 THEN l \in asg ELSE Abs(l) \notin asg

Satisfies(asg, c) == \E l \in c.lits : Holds(asg, l)

SatisfiesAll(asg, S) == \A c \in S : Satisfies(asg, c)

Entails(S, c) ==
    \A asg \in SUBSET VarsOf(S \cup {c}) : SatisfiesAll(asg, S) => Satisfies(asg, c)

Equivalent(S, T) ==
    \A asg \in SUBSET VarsOf(S \cup T) : SatisfiesAll(asg, S) <=> SatisfiesAll(asg, T)

\* the clauses reached from c by following left_parent / right_parent
RECURSIVE Ancestors(_)
Ancestors(c) ==
    IF IsResolvent(c)
    THEN {LeftParent(c), RightParent(c)}
             \cup Ancestors(LeftParent(c)) \cup Ancestors(RightParent(c))
    ELSE {}

----------------------------------------------------------------------------
(* Properties *)

\* C1: whenever resolve() reports goal_is_true, the premises of the report
\* entail its goal.
Soundness ==
    report.status = "true" => Entails(report.premises, Clause(report.goal))

\* C2: every call of resolve() eventually returns a report.
Termination == (pc = "loop") ~> (pc = "idle")

\* C3: SaturationByLevels never returns the failure report for a goal that
\* the premises entail.
LevelsCompleteness ==
    (strategy = "levels" /\ report.status = "false")
        => ~Entails(report.premises, Clause(report.goal))

\* C4: every member of acquired_knowledge is a member of resolution_clauses.
AcquiredInWorkingSet == SetSubset(acquired_knowledge, resolution_clauses)

\* C5: a successful remove_premise(c) leaves c out of premises and leaves no
\* resolvent in acquired_knowledge that has c among its ancestors.
CascadingRetraction ==
    [][\A c \in InputClauses :
          (RemovePremise(c) /\ Has(premises, c))
              => /\ ~Has(premises', c)
                 /\ \A r \in acquired_knowledge' : ~Has(Ancestors(r), c)]_vars

\* C6: remove_premise(c) for a clause c that is not a premise returns
\* succeeded = false and changes neither premises, acquired_knowledge,
\* temporary_knowledge, resolution_clauses nor goal.
RemoveAbsentPremise ==
    [][\A c \in EditClauses :
          (RemovePremise(c) /\ ~Has(premises, c))
              => /\ last'.ok = FALSE
                 /\ UNCHANGED <<premises, acquired_knowledge, temporary_knowledge,
                                resolution_clauses, goal>>]_vars

\* a failed removal has happened on a knowledge base that holds premises and
\* acquired knowledge
RemoveAbsentPremiseWitness ==
    /\ last.op = "remove"
    /\ last.ok = FALSE
    /\ premises # {}
    /\ acquired_knowledge # {}

\* C7: add_premise(c) returns succeeded = true, makes c a premise and changes
\* neither resolution_clauses, acquired_knowledge, temporary_knowledge nor goal.
AddPremiseFrame ==
    [][\A c \in EditClauses :
          AddPremise(c)
              => /\ last'.ok = TRUE
                 /\ Has(premises', c)
                 /\ UNCHANGED <<resolution_clauses, acquired_knowledge,
                                temporary_knowledge, goal>>]_vars

\* a premise has been added after an inquiry and is not in the working set
AddPremiseFrameWitness ==
    /\ last.op = "add"
    /\ last.ok = TRUE
    /\ resolution_clauses # {}
    /\ \E p \in premises : ~Has(resolution_clauses, p)

\* C8: in every success report each resolvent of the derivation has both
\* parents among the premises, the negated-goal units or the earlier
\* resolvents of the derivation, and the last resolvent is NIL.
ProofOrder ==
    report.status = "true" =>
        LET d == report.derivation
        IN  /\ Len(d) > 0
            /\ IsNil(d[Len(d)])
            /\ \A i \in 1..Len(d) : \A k \in 1..2 :
                  \/ Has(report.premises, d[i].par[k])
                  \/ Has(NegClause(Clause(report.goal)), d[i].par[k])
                  \/ \E j \in 1..(i - 1) : d[j].lits = d[i].par[k].lits

\* C9: the resolvent of either rule is a logical consequence of its two
\* parent clauses.
RuleSoundness ==
    pc \in {"possible_tautologies", "non_tautologies"}
        => Entails({fin[1], fin[2]}, fout)

\* C10: the result of either simplification strategy is a subset of the
\* clause set it is given and is satisfied by exactly the same assignments.
SimplificationPreserves ==
    pc \in {"redundant", "insignificant"}
        => /\ fout \subseteq fin
           /\ Equivalent(fin, fout)

\* subsumption removal has dropped a clause and kept another
SimplificationPreservesWitness ==
    /\ pc = "redundant"
    /\ fout # fin
    /\ fout # {}

\* C11: applying the configured simplification sequence to its own result
\* gives that result again.
IdempotentSimplification ==
    pc = "simplified_again" => fout[2] = fout[1]

\* a sequence of both strategies has been applied twice to a set from which
\* the first application removed some clauses and kept others
IdempotentSimplificationWitness ==
    /\ pc = "simplified_again"
    /\ Len(simplification) = 2
    /\ fout[1] # fin
    /\ fout[1] # {}

\* C12: RedundantClauseRemoval keeps exactly the clauses that have no other
\* clause of the set as a subset; what it keeps is not empty unless the set is,
\* and holds no two distinct clauses of which one is a subset of the other.
SubsumptionRemoval ==
    pc = "redundant"
        => /\ fout = {c \in fin : ~\E a \in fin : a.lits \subseteq c.lits /\ a.lits # c.lits}
           /\ (fin # {} => fout # {})
           /\ \A a, b \in fout : a.lits \subseteq b.lits => a = b

\* of three clauses that form a chain only the smallest one, which is not
\* NIL, has been kept
SubsumptionRemovalWitness ==
    /\ pc = "redundant"
    /\ Cardinality(fin) = 3
    /\ Cardinality(fout) = 1
    /\ \A c \in fout : ~IsNil(c)

CaseInsensitiveIdentity ==
    (pc = "literals" /\ HasSameVariableAs(fin[1], fin[2]))
        => IF HasSamePolarityAs(fin[1], fin[2])
           THEN fout.eq /\ fout.hashes[1] = fout.hashes[2] /\ fout.member
           ELSE fout.complement

\* C15: a clause that is neither NIL nor a tautology, resolved with the clause
\* of the negations of its literals, gives NIL under both rules.
ComplementResolvesToNil ==
    (/\ pc \in {"possible_tautologies", "non_tautologies"}
     /\ ~IsNil(fin[1])
     /\ ~IsTautology(fin[1])
     /\ fin[2].lits = {Neg(l) : l \in fin[1].lits})
        => IsNil(fout)

\* the rule without tautologies has resolved a clause of two literals with
\* the clause of their negations
ComplementResolvesToNilWitness ==
    /\ pc = "non_tautologies"
    /\ Cardinality(fin[1].lits) = 2
    /\ ~IsTautology(fin[1])
    /\ fin[2].lits = {Neg(l) : l \in fin[1].lits}
    /\ IsNil(fout)

\* C16: each parent of every resolvent of acquired_knowledge is a premise, a
\* unit of the negated goal or a resolvent of acquired_knowledge.
DerivationGraph ==
    \A r \in acquired_knowledge : \A k \in 1..2 :
        \/ Has(premises, r.par[k])
        \/ Len(goal) = 1 /\ Has(NegClause(goal[1]), r.par[k])
        \/ Has(acquired_knowledge, r.par[k])

\* C17: every clause of resolution_clauses before consolidate_knowledge() is
\* in resolution_clauses after it.
MonotoneSaturation ==
    [][RoundConsolidate => SetSubset(resolution_clauses, resolution_clauses')]_vars

\* C18: when resolve() has returned goal_is_true = false, no pair of
\* get_new_clause_pairs() resolves to NIL, and every resolvent of a pair that
\* is new knowledge is a member of resolution_clauses.
FailureOnlyAtSaturation ==
    (pc = "idle" /\ last.op = "resolve" /\ report.status = "false")
        => \A p \in NewClausePairs :
              /\ ~IsNil(PairResolvent(p))
              /\ IsNewKnowledge(PairResolvent(p)) => Has(resolution_clauses, PairResolvent(p))

\* a failure has been reported after at least one round has added knowledge,
\* and some pair of the final working set resolves to new knowledge
FailureOnlyAtSaturationWitness ==
    /\ pc = "idle"
    /\ last.op = "resolve"
    /\ report.status = "false"
    /\ acquired_knowledge # {}
    /\ \E p \in NewClausePairs : IsNewKnowledge(PairResolvent(p))

\* a step of the while loop that goes round again after
\* consolidate_knowledge(): the steps of RoundConsolidate
ConsolidateStep == pc = "loop" /\ pc' = "loop" /\ round' # round

\* the literal sets of the clauses of a set
LitsOf(S) == {c.lits : c \in S}

\* C19: consolidate_knowledge() leaves in resolution_clauses the simplification
\* of resolution_clauses with the temporary resolvents (the same clauses
\* whichever of the equal resolvents the temporary set holds), adds to
\* acquired_knowledge the temporary resolvents that are in the simplified
\* resolution_clauses and nothing else, empties temporary_knowledge and
\* leaves premises and goal alone.
ConsolidatePostcondition ==
    [][ConsolidateStep =>
          /\ LitsOf(resolution_clauses') =
                LitsOf(Simplify(simplification,
                                SetUnion(resolution_clauses,
                                         {Clause(ls) : ls \in LitsOf(NewResolvents)})))
          /\ \A c \in resolution_clauses' : c \in resolution_clauses \/ c \in NewResolvents
          /\ acquired_knowledge \subseteq acquired_knowledge'
          /\ \A a \in acquired_knowledge' :
                \/ a \in acquired_knowledge
                \/ a \in NewResolvents /\ Has(resolution_clauses', a)
          /\ \A r \in NewResolvents :
                Has(resolution_clauses', r) => Has(acquired_knowledge', r)
          /\ temporary_knowledge' = {}
          /\ UNCHANGED <<premises, goal>>]_vars

\* one consolidation under both simplification strategies has acquired
\* knowledge and has left a premise out of the working set
ConsolidatePostconditionWitness ==
    /\ pc = "loop"
    /\ round = 1
    /\ Len(simplification) = 2
    /\ acquired_knowledge # {}
    /\ \E c \in premises : ~Has(resolution_clauses, c)

\* a step that enters the resolution loop, i.e. a call of prepare_for_resolution
PrepareStep == pc = "idle" /\ pc' = "loop"

\* C20: prepare_for_resolution(goal, keep) leaves the temporary knowledge empty,
\* the acquired knowledge empty when keep is false and unchanged when keep is
\* true, and the working set equal to the configured simplification of the
\* premises, the acquired knowledge and the unit clauses of the negated literals
\* of the goal, whatever the working set was before.
PreparePostcondition ==
    [][PrepareStep =>
          /\ temporary_knowledge' = {}
          /\ last'.keep => acquired_knowledge' = acquired_knowledge
          /\ ~last'.keep => acquired_knowledge' = {}
          /\ Len(goal') = 1
          /\ resolution_clauses' =
                 Simplify(simplification,
                          SetUnion(SetUnion(premises, acquired_knowledge'),
                                   {Clause({Neg(l)}) : l \in goal'[1].lits}))
          /\ UNCHANGED <<premises, strategy, simplification>>]_vars

\* a second inquiry has just been prepared keeping acquired knowledge, while
\* the first one had left resolvents behind
PreparePostconditionWitness ==
    /\ pc = "loop"
    /\ round = 0
    /\ tasks = MaxTasks
    /\ last.keep
    /\ acquired_knowledge # {}

\* the members of the working set that equal an acquired resolvent or a unit
\* of the negated goal
SupportMembers ==
    {c \in resolution_clauses :
        Has(acquired_knowledge, c) \/ Has(NegClause(goal[1]), c)}

\* C21: SupportSetStrategy.get_new_clause_pairs() returns exactly the pairs
\* (p, s) with p in resolution_clauses outside the support set and s in it,
\* and every unordered pair of distinct support-set members once, the support
\* set being resolution_clauses intersected with acquired_knowledge and the
\* negated goal; their number is |rest| * |support| + |support| choose 2.
\* Clauses are compared as the sets do, by their literals.
SupportPairsExact ==
    (strategy = "support" /\ pc = "loop")
        => LET ss == SupportMembers
               rest == resolution_clauses \ ss
               pairs == NewClausePairs
           IN  /\ \A p \in pairs :
                     \/ Has(rest, p[1]) /\ Has(ss, p[2])
                     \/ Has(ss, p[1]) /\ Has(ss, p[2]) /\ p[1].lits # p[2].lits
               /\ \A a \in rest, b \in ss :
                     \E p \in pairs : p[1].lits = a.lits /\ p[2].lits = b.lits
               /\ \A a, b \in ss :
                     a # b => \E p \in pairs : {p[1].lits, p[2].lits} = {a.lits, b.lits}
               /\ 2 * Cardinality({{p[1].lits, p[2].lits} : p \in pairs}) =
                     2 * Cardinality(rest) * Cardinality(ss)
                        + Cardinality(ss) * (Cardinality(ss) - 1)

\* a round of the support-set strategy on two premises outside the support
\* set, one negated-goal unit and two committed resolvents: nine pairs
SupportPairsExactWitness ==
    /\ strategy = "support"
    /\ pc = "loop"
    /\ Cardinality(resolution_clauses \ SupportMembers) = 2
    /\ Cardinality({c \in SupportMembers : Has(NegClause(goal[1]), c)}) = 1
    /\ Cardinality({c \in SupportMembers : Has(acquired_knowledge, c)}) = 2
    /\ Cardinality({{p[1].lits, p[2].lits} : p \in NewClausePairs}) = 9

\* C22: SaturationByLevels.get_new_clause_pairs() returns a pair for every two
\* distinct clauses of resolution_clauses, one per unordered pair, and nothing
\* else: n(n-1)/2 pairs for n clauses and none that pairs a clause with itself
\* or with an equal clause.
LevelsPairsExact ==
    (strategy = "levels" /\ pc = "loop")
        => LET pairs == NewClausePairs
               n == Cardinality(resolution_clauses)
           IN  /\ \A p \in pairs :
                     /\ p[1] \in resolution_clauses
                     /\ p[2] \in resolution_clauses
                     /\ p[1].lits # p[2].lits
               /\ \A a, b \in resolution_clauses :
                     a # b => <<a, b>> \in pairs \/ <<b, a>> \in pairs
               /\ 2 * Cardinality({{p[1], p[2]} : p \in pairs}) = n * (n - 1)

\* a round of saturation by levels on five clauses, two of them committed
\* resolvents: ten pairs
LevelsPairsExactWitness ==
    /\ strategy = "levels"
    /\ pc = "loop"
    /\ Cardinality(resolution_clauses) = 5
    /\ Cardinality(acquired_knowledge) = 2
    /\ Cardinality({{p[1], p[2]} : p \in NewClausePairs}) = 10

\* the literals that are in exactly one of two clauses
SymmetricDifference(A, B) == (A.lits \ B.lits) \cup (B.lits \ A.lits)

\* C23: _resolve_non_tautologies(A, B) is the literals common to A and B
\* together with the symmetric difference of A and B without every literal
\* whose negation is in that symmetric difference too, and it records A as
\* left parent and B as right parent.
NonTautologyRule ==
    pc = "non_tautologies"
        => LET D == SymmetricDifference(fin[1], fin[2])
           IN  /\ fout.lits = (fin[1].lits \cap fin[2].lits)
                                 \cup {l \in D : Neg(l) \notin D}
               /\ IsResolvent(fout)
               /\ LeftParent(fout) = fin[1]
               /\ RightParent(fout) = fin[2]

\* the rule has kept a common literal and a literal of one clause only, and
\* has removed a complementary pair across the two clauses
NonTautologyRuleWitness ==
    /\ pc = "non_tautologies"
    /\ fin[1].lits \cap fin[2].lits # {}
    /\ \E l \in fin[1].lits \ fin[2].lits : Neg(l) \in fin[2].lits \ fin[1].lits
    /\ \E l \in fout.lits : l \notin fin[1].lits \cap fin[2].lits
    /\ fin[1] # fin[2]

\* C24: _resolve_possible_tautologies(A, B) drops a literal of A only when its
\* negation is in B and a literal of B only when its negation is in A, and
\* keeps every other literal of the two clauses; a complementary pair inside
\* one clause that the other clause does not match stays in the resolvent.
PossibleTautologyRule ==
    pc = "possible_tautologies"
        => fout.lits = {x \in fin[1].lits : Neg(x) \notin fin[2].lits}
                          \cup {y \in fin[2].lits : Neg(y) \notin fin[1].lits}

\* C25: on two clauses neither of which is a tautology both rules give the
\* same literals, and the rule used under a configuration is the one without
\* tautologies exactly when InsignificantClauseRemoval is in the configuration.
RulesInterchangeable ==
    pc \in {"possible_tautologies", "non_tautologies"}
        => /\ (~IsTautology(fin[1]) /\ ~IsTautology(fin[2]))
                 => /\ fout.lits = ResolvePossibleTautologies(fin[1], fin[2]).lits
                    /\ fout.lits = ResolveNonTautologies(fin[1], fin[2]).lits
           /\ \A seq \in Configurations :
                 ResolveClauses(seq, fin[1], fin[2]) =
                     IF \E i \in 1..Len(seq) : seq[i] = "insignificant"
                     THEN ResolveNonTautologies(fin[1], fin[2])
                     ELSE ResolvePossibleTautologies(fin[1], fin[2])

\* the rule that allows tautologies has resolved two clauses that are not
\* tautologies, share a literal and hold a complementary pair between them
RulesInterchangeableWitness ==
    /\ pc = "possible_tautologies"
    /\ ~IsTautology(fin[1])
    /\ ~IsTautology(fin[2])
    /\ fin[1].lits \cap fin[2].lits # {}
    /\ \E l \in fin[1].lits : Neg(l) \in fin[2].lits
    /\ fout.lits = ResolveNonTautologies(fin[1], fin[2]).lits

\* C26: an inquiry of do() answers as resolve() does on a knowledge base that
\* holds the same premises and nothing else: the tasks done before it, the
\* knowledge they acquired and the premises they removed do not change
\* goal_is_true.
HistoryIndependence ==
    (pc = "idle" /\ last.op = "resolve")
        => report.status =
              ResolveFresh(strategy, simplification, report.premises, Clause(report.goal))

\* the last of MaxTasks tasks was an inquiry, so that other tasks came before
\* it, and it has failed on a knowledge base with premises
HistoryIndependenceWitness ==
    /\ pc = "idle"
    /\ last.op = "resolve"
    /\ tasks = MaxTasks
    /\ report.status = "false"
    /\ report.knowledge # {}
    /\ premises # {}

\* C27: a clause set simplified by RedundantClauseRemoval and then by
\* InsignificantClauseRemoval is the set simplified by the two strategies in
\* the other order.
PipelineOrderIndependence ==
    (pc = "simplified" /\ Len(simplification) = 2)
        => fout = Simplify(<<simplification[2], simplification[1]>>, fin)

\* a pipeline of both strategies has simplified a set in which a clause
\* subsumes a tautology and a clause that is no tautology, and has kept a clause
PipelineOrderIndependenceWitness ==
    /\ pc = "simplified"
    /\ Len(simplification) = 2
    /\ \E a, t \in fin : IsTautology(t) /\ a # t /\ a.lits \subseteq t.lits
    /\ \E a, b \in fin : ~IsTautology(b) /\ a # b /\ a.lits \subseteq b.lits
    /\ fout # {}

\* C28: in every success report each entry of the derivation is the final NIL
\* resolvent or one of its ancestors, and no resolvent occurs twice in the
\* derivation.
MinimalProof ==
    report.status = "true" =>
        LET d == report.derivation
        IN  /\ Len(d) > 0
            /\ \A i \in 1..Len(d) : d[i] = d[Len(d)] \/ d[i] \in Ancestors(d[Len(d)])
            /\ \A i, j \in 1..Len(d) : i # j => d[i] # d[j]

\* some assignment satisfies every clause of S
Satisfiable(S) == \E asg \in SUBSET VarsOf(S) : SatisfiesAll(asg, S)

\* C29: when resolve() of the support-set strategy answers true, resolve() of
\* saturation by levels on the same premises, goal and configuration does not
\* answer false; and on satisfiable premises, when saturation by levels answers
\* true the support-set strategy does not answer false.
StrategyAgreement ==
    (pc = "idle" /\ last.op = "resolve" /\ report.status = "true")
        => /\ strategy = "support" =>
                 ResolveFresh("levels", simplification, report.premises,
                              Clause(report.goal)) # "false"
           /\ (strategy = "levels" /\ Satisfiable(report.premises)) =>
                 ResolveFresh("support", simplification, report.premises,
                              Clause(report.goal)) # "false"

\* C30: under a configuration that holds InsignificantClauseRemoval, whenever
\* resolve() enumerates the candidate pairs no clause of resolution_clauses is
\* a tautology, and no resolvent of a candidate pair is a tautology.
TautologyFreeWorkingSet ==
    (pc = "loop" /\ RemovesInsignificantClauses(simplification))
        => /\ \A c \in resolution_clauses : ~IsTautology(c)
           /\ \A p \in NewClausePairs : ~IsTautology(PairResolvent(p))

\* a round after a consolidation, on a knowledge base with a tautological
\* premise, has candidate pairs with a resolvent that is not NIL
TautologyFreeWorkingSetWitness ==
    /\ pc = "loop"
    /\ RemovesInsignificantClauses(simplification)
    /\ \E c \in premises : IsTautology(c)
    /\ acquired_knowledge # {}
    /\ \E p \in NewClausePairs : ~IsNil(PairResolvent(p))

====
